---- MODULE Spec2Model ----
(***************************************************************************)
(* PanicFileLogWriter of log4go (src/paniclog.go): the bounded record      *)
(* queue w.rec, the producers calling LogWrite, the single worker          *)
(* goroutine started by run, and the Close handshake of LogCloser.         *)
(*                                                                         *)
(* The channel w.rec is modelled with Go's channel semantics: a buffer of  *)
(* LogBufferLength slots, a FIFO queue of parked senders, and a closed     *)
(* flag.  A send on a full channel parks the sender; a receive moves the   *)
(* first parked sender's value into the buffer and wakes it; close makes   *)
(* every parked and every later sender panic, and a receive on a closed    *)
(* channel still delivers what is buffered before it reports !ok.          *)
(*                                                                         *)
(* LogCloser (LogCloserInit, WaitForEnd, EndNotify) is not part of         *)
(* src/paniclog.go.  It is modelled from the specification: the drain      *)
(* request is a nil record sent through w.rec, and the worker              *)
(* acknowledges it on an unbuffered channel the closer is waiting on.      *)
(*                                                                         *)
(* Records handed to LogWrite are non-nil.  A failed write appends         *)
(* nothing to the file.                                                    *)
(***************************************************************************)
EXTENDS Integers, Sequences, FiniteSets, TLC

\* ---------------------------------------------------------------- bounds
NumProducers == 2
MaxCalls == 3
LogBufferLength == 1
MaxTicks == 1
StartTime == 100
\* modification times tried lie within MaxPeriods intervals of the epoch
MaxPeriods == 2

Producers == 1..NumProducers
\* the goroutine calling Close, as a sender on w.rec
Closer == NumProducers + 1
\* MaxCalls bounds the LogWrite calls of all producers together.

VARIABLES
    LogWithBlocking,  \* global configuration read by LogWrite
    rec,              \* w.rec: [buf, sendq, closed]
    fileOpen,         \* w.file is an open handle
    fileData,         \* what has been appended to the file, in order
    when,             \* w.when (already upper-cased)
    interval,         \* w.interval
    rolloverAt,       \* w.rolloverAt
    firstRollover,    \* w.firstRollover
    now,              \* the wall clock, Unix seconds
    workerPc,         \* worker goroutine: recv, write, notify, exit, done
    workerRec,        \* the record the worker has dequeued
    closerPc,         \* caller of Close: idle, parked, waitEnd, close, returned
    pc,               \* producer p: idle, send, parked, panicked
    calls,            \* producer p: LogWrite calls that have returned
    enq,              \* history: records in the order they entered w.rec
    dropped,          \* history: records LogWrite discarded
    suspended,        \* history: records whose LogWrite parked on a full queue
    closeSnap,        \* history: Len(enq) and Len(fileData) when Close was called
    ctorPc,           \* NewPanicFileLogWriter: new, run, prepare, rotate, start, ok, failed
    whenArg,          \* the when argument as passed, a sequence of characters
    stat,             \* os.Stat(w.filename): [exists, mtime]
    loggerMode,       \* os.Getenv("LOGGER_MODE")
    absOK,            \* filepath.Abs(fname) succeeds
    openOK,           \* os.OpenFile(w.filename, ...) succeeds
    suffix,           \* w.suffix
    fileFilter,       \* w.fileFilter, as the rule it was compiled from
    handles,          \* file handles the sink has opened and not closed
    closeCount,       \* history: calls of w.file.Close()
    dupCount,         \* history: redirections of descriptors 1 and 2
    writeFailed       \* history: a write of the worker has failed

vars == <<LogWithBlocking, rec, fileOpen, fileData, when, interval, rolloverAt,
          firstRollover, now, workerPc, workerRec, closerPc, pc, calls, enq,
          dropped, suspended, closeSnap, ctorPc, whenArg, stat, loggerMode, absOK,
          openOK, suffix, fileFilter, handles, closeCount, dupCount, writeFailed>>

sinkVars == <<rec, fileOpen, fileData, when, interval, suffix, fileFilter,
              rolloverAt, firstRollover>>
rotationVars == <<when, interval, suffix, fileFilter, rolloverAt, firstRollover>>
\* the construction, and what it was given
ctorVars == <<ctorPc, whenArg, stat, loggerMode, absOK, openOK>>
osVars == <<handles, closeCount, dupCount>>

\* --------------------------------------------------------------- records
\* The nil *LogRecord that WaitForEnd sends as the drain request.
Nil == [src |-> Closer, seq |-> 0, binary |-> FALSE]

\* The record of producer p's k-th call; even calls carry a Binary payload.
RecordOf(p, k) == [src |-> p, seq |-> k, binary |-> (k % 2 = 0)]

\* What the worker writes for a record: rec.Binary verbatim, or the text
\* FormatLogRecord(w.format, rec) renders.
Render(r) == IF r.binary THEN <<"raw", r.src, r.seq>> ELSE <<"fmt", r.src, r.seq>>

RECURSIVE MapRender(_)
MapRender(s) == IF s = <<>> THEN <<>> ELSE <<Render(Head(s))>> \o MapRender(Tail(s))

Range(s) == {s[i] : i \in 1..Len(s)}

\* ------------------------------------------------------- rotation policy
\* prepare(): the interval for w.when.
Interval(w) ==
    CASE w = "M" -> 60
      [] w = "H" -> 60 * 60
      [] w \in {"D", "MIDNIGHT"} -> 60 * 60 * 24
      [] OTHER -> 60 * 60 * 24

\* prepare(): the strftime suffix for w.when.
Suffix(w) ==
    CASE w = "M" -> "%Y-%m-%d_%H-%M"
      [] w = "H" -> "%Y%m%d%H"
      [] w \in {"D", "MIDNIGHT"} -> "%Y-%m-%d"
      [] OTHER -> "%Y-%m-%d"

\* prepare(): the rule w.fileFilter is compiled from.
RegRule(w) ==
    CASE w = "M" -> "^\\d{4}-\\d{2}-\\d{2}_\\d{2}-\\d{2}$"
      [] w = "H" -> "^\\d{10}$"
      [] w \in {"D", "MIDNIGHT"} -> "^\\d{4}-\\d{2}-\\d{2}$"
      [] OTHER -> "^\\d{4}-\\d{2}-\\d{2}$"

\* Go's integer division truncates toward zero.
GoDiv(a, b) == IF a >= 0 THEN a \div b ELSE -((-a) \div b)

\* prepare(): w.rolloverAt = (t.Unix()/w.interval + 1) * w.interval
RolloverAt(t, i) == (GoDiv(t, i) + 1) * i

WhenInputs == {"M", "H"}

\* strings.ToUpper(when), character by character
LowerLetters == <<"a", "b", "c", "d", "e", "f", "g", "h", "i", "j", "k", "l", "m",
                  "n", "o", "p", "q", "r", "s", "t", "u", "v", "w", "x", "y", "z">>
UpperLetters == <<"A", "B", "C", "D", "E", "F", "G", "H", "I", "J", "K", "L", "M",
                  "N", "O", "P", "Q", "R", "S", "T", "U", "V", "W", "X", "Y", "Z">>
UpperChar(c) ==
    IF \E i \in 1..Len(LowerLetters) : LowerLetters[i] = c
    THEN UpperLetters[CHOOSE i \in 1..Len(LowerLetters) : LowerLetters[i] = c]
    ELSE c
RECURSIVE Join(_)
Join(cs) == IF cs = <<>> THEN "" ELSE Head(cs) \o Join(Tail(cs))
ToUpperKeepsCase(cs) == Join(cs)
ToUpper(cs) == Join([i \in 1..Len(cs) |-> UpperChar(cs[i])])

\* the when arguments tried
WhenArgs ==
    { <<"M">>, <<"m">>, <<"H">>, <<"h">>, <<"D">>, <<"d">>,
      <<"M", "I", "D", "N", "I", "G", "H", "T">>,
      <<"m", "i", "d", "n", "i", "g", "h", "t">>,
      <<"M", "i", "d", "N", "i", "g", "h", "T">>,
      <<>>, <<"X">>, <<"w">>, <<"m", "i", "n">>, <<"M", "M">>, <<"h", "h">> }

\* the outcomes of os.Stat tried: no file, or a file whose modification
\* time lies on, just before or just after a minute, hour or day boundary
NoFile == [exists |-> FALSE, mtime |-> 0]
ModTimes ==
    {k * i + d : k \in (0 - MaxPeriods)..MaxPeriods, i \in {60, 60 * 60, 60 * 60 * 24},
                 d \in {0 - 1, 0, 1}}
StatInputs == {NoFile} \cup {[exists |-> TRUE, mtime |-> t] : t \in ModTimes}

\* ------------------------------------------------------------ the file
\* w.file.Close() on a handle that is open
FileClose(h, open) == IF open THEN h - 1 ELSE h
FileOpenTwice(h) == h + 2
\* os.OpenFile succeeded: one more open handle
FileOpen(h) == h + 1

\* ---------------------------------------------------------- the channel
\* make(chan *LogRecord, LogBufferLength)
MakeChan == [buf |-> <<>>, sendq |-> <<>>, closed |-> FALSE]

\* a value enters the buffer behind what is already there
Enqueue(b, v) == Append(b, v)

\* ch <- v with room in the buffer
ChanSend(ch, v) == [ch EXCEPT !.buf = Enqueue(@, v)]
\* ch <- v on a full buffer: the sender parks
ChanPark(ch, who, v) == [ch EXCEPT !.sendq = Append(@, [who |-> who, val |-> v])]
\* <-ch with a value buffered: the head leaves, the first parked sender's
\* value enters
ChanRecv(ch) ==
    IF ch.sendq = <<>>
    THEN [ch EXCEPT !.buf = Tail(@)]
    ELSE [ch EXCEPT !.buf = Enqueue(Tail(@), Head(ch.sendq).val), !.sendq = Tail(@)]
\* the sender a receive wakes, as a set (empty when no sender is parked)
Woken(ch) == IF ch.sendq = <<>> THEN {} ELSE {Head(ch.sendq).who}
ParkedSenders(ch) == {ch.sendq[i].who : i \in 1..Len(ch.sendq)}

\* --------------------------------------------------------------- Init
\* The state NewPanicFileLogWriter leaves behind when it succeeds: prepare()
\* has run with the current time as reference (the file did not exist),
\* intRotate() has opened the file, and the worker goroutine has started.
Init ==
    /\ LogWithBlocking \in BOOLEAN
    /\ rec = MakeChan
    /\ fileOpen = TRUE
    /\ fileData = <<>>
    /\ when \in WhenInputs
    /\ interval = Interval(when)
    /\ now = StartTime
    /\ rolloverAt = RolloverAt(now, interval)
    /\ firstRollover = TRUE
    /\ workerPc = "recv"
    /\ workerRec = Nil
    /\ closerPc = "idle"
    /\ pc = [p \in Producers |-> "idle"]
    /\ calls = [p \in Producers |-> 0]
    /\ enq = <<>>
    /\ dropped = {}
    /\ suspended = {}
    /\ closeSnap = [enq |-> 0, written |-> 0]
    /\ ctorPc = "ok"
    /\ whenArg = <<when>>
    /\ stat = NoFile
    /\ loggerMode = ""
    /\ absOK = TRUE
    /\ openOK = TRUE
    /\ suffix = Suffix(when)
    /\ fileFilter = RegRule(when)
    /\ handles = 1
    /\ closeCount = 0
    /\ dupCount = 1
    /\ writeFailed = FALSE


\* ------------------------------------------------------------ LogWrite
OverflowWhenBlocking == LogWithBlocking /\ Len(rec.buf) >= LogBufferLength
OverflowStrict == ~LogWithBlocking /\ Len(rec.buf) > LogBufferLength
\* if !LogWithBlocking { if len(w.rec) >= LogBufferLength { return } }
Overflow == ~LogWithBlocking /\ Len(rec.buf) >= LogBufferLength

RECURSIVE SumCalls(_)
SumCalls(S) ==
    IF S = {} THEN 0
    ELSE LET p == CHOOSE q \in S : TRUE
         IN  calls[p] + (IF pc[p] \in {"send", "parked", "panicked"} THEN 1 ELSE 0)
             + SumCalls(S \ {p})
\* LogWrite calls made so far, returned or not
CallsStarted == SumCalls(Producers)

\* LogWrite up to the send: the overflow test, and the silent return.
LogWriteCheck(p) ==
    /\ ctorPc = "ok"
    /\ pc[p] = "idle"
    /\ CallsStarted < MaxCalls
    /\ IF Overflow
       THEN /\ dropped' = dropped \cup {RecordOf(p, calls[p] + 1)}
            /\ calls' = [calls EXCEPT ![p] = @ + 1]
            /\ pc' = pc
       ELSE /\ pc' = [pc EXCEPT ![p] = "send"]
            /\ UNCHANGED <<calls, dropped>>
    /\ UNCHANGED <<LogWithBlocking, sinkVars, now, workerPc, workerRec, closerPc,
                   enq, suspended, closeSnap>>
    /\ UNCHANGED <<ctorVars, osVars, writeFailed>>

LogWriteSendRecovers(p) ==
    /\ pc[p] = "send"
    /\ LET r == RecordOf(p, calls[p] + 1) IN
       IF rec.closed
       THEN /\ pc' = [pc EXCEPT ![p] = "idle"]
            /\ calls' = [calls EXCEPT ![p] = @ + 1]
            /\ UNCHANGED <<rec, enq, suspended>>
       ELSE IF Len(rec.buf) < LogBufferLength
       THEN /\ rec' = ChanSend(rec, r)
            /\ enq' = Append(enq, r)
            /\ pc' = [pc EXCEPT ![p] = "idle"]
            /\ calls' = [calls EXCEPT ![p] = @ + 1]
            /\ UNCHANGED suspended
       ELSE /\ rec' = ChanPark(rec, p, r)
            /\ pc' = [pc EXCEPT ![p] = "parked"]
            /\ suspended' = suspended \cup {r}
            /\ UNCHANGED <<enq, calls>>
    /\ UNCHANGED <<LogWithBlocking, fileOpen, fileData, rotationVars, now, workerPc,
                   workerRec, closerPc, dropped, closeSnap>>
    /\ UNCHANGED <<ctorVars, osVars, writeFailed>>
\* w.rec <- rec: panics on a closed channel, enqueues and returns when the
\* buffer has room, parks the caller otherwise.
LogWriteSend(p) ==
    /\ pc[p] = "send"
    /\ LET r == RecordOf(p, calls[p] + 1) IN
       IF rec.closed
       THEN /\ pc' = [pc EXCEPT ![p] = "panicked"]
            /\ UNCHANGED <<rec, enq, calls, suspended>>
       ELSE IF Len(rec.buf) < LogBufferLength
       THEN /\ rec' = ChanSend(rec, r)
            /\ enq' = Append(enq, r)
            /\ pc' = [pc EXCEPT ![p] = "idle"]
            /\ calls' = [calls EXCEPT ![p] = @ + 1]
            /\ UNCHANGED suspended
       ELSE /\ rec' = ChanPark(rec, p, r)
            /\ pc' = [pc EXCEPT ![p] = "parked"]
            /\ suspended' = suspended \cup {r}
            /\ UNCHANGED <<enq, calls>>
    /\ UNCHANGED <<LogWithBlocking, fileOpen, fileData, rotationVars, now, workerPc,
                   workerRec, closerPc, dropped, closeSnap>>
    /\ UNCHANGED <<ctorVars, osVars, writeFailed>>

LogWrite == \E p \in Producers : LogWriteCheck(p) \/ LogWriteSend(p)

\* --------------------------------------------------------------- Close
\* LogCloser.EndNotify(rec): the record is the drain request.
EndNotify(r) == r = Nil

\* LogCloser.WaitForEnd(w.rec), first half: the drain request is sent
\* through the queue like any record.
WaitForEndSend ==
    IF Len(rec.buf) < LogBufferLength
    THEN /\ rec' = ChanSend(rec, Nil)
         /\ closerPc' = "waitEnd"
    ELSE /\ rec' = ChanPark(rec, Closer, Nil)
         /\ closerPc' = "parked"

CloseBeginNoDrain ==
    /\ ctorPc = "ok"
    /\ closerPc = "idle"
    /\ closeSnap' = [enq |-> Len(enq), written |-> Len(fileData)]
    /\ closerPc' = "close"
    /\ UNCHANGED <<LogWithBlocking, sinkVars, now, workerPc, workerRec, pc, calls,
                   enq, dropped, suspended>>
    /\ UNCHANGED <<ctorVars, osVars, writeFailed>>
\* Close(): w.WaitForEnd(w.rec)
CloseBegin ==
    /\ ctorPc = "ok"
    /\ closerPc = "idle"
    /\ closeSnap' = [enq |-> Len(enq), written |-> Len(fileData)]
    /\ WaitForEndSend
    /\ UNCHANGED <<LogWithBlocking, fileOpen, fileData, rotationVars, now, workerPc,
                   workerRec, pc, calls, enq, dropped, suspended>>
    /\ UNCHANGED <<ctorVars, osVars, writeFailed>>

CloseChanClosesFile ==
    /\ closerPc = "close"
    /\ rec' = [rec EXCEPT !.closed = TRUE, !.sendq = <<>>]
    /\ pc' = [p \in Producers |->
                IF p \in ParkedSenders(rec) THEN "panicked" ELSE pc[p]]
    /\ closerPc' = "returned"
    /\ fileOpen' = FALSE
    /\ handles' = FileClose(handles, fileOpen)
    /\ closeCount' = closeCount + 1
    /\ UNCHANGED <<LogWithBlocking, fileData, rotationVars, now, workerPc,
                   workerRec, calls, enq, dropped, suspended, closeSnap>>
    /\ UNCHANGED <<ctorVars, dupCount, writeFailed>>
\* Close(): close(w.rec), and the return.  Every sender parked on the
\* channel panics.
CloseChan ==
    /\ closerPc = "close"
    /\ rec' = [rec EXCEPT !.closed = TRUE, !.sendq = <<>>]
    /\ pc' = [p \in Producers |->
                IF p \in ParkedSenders(rec) THEN "panicked" ELSE pc[p]]
    /\ closerPc' = "returned"
    /\ UNCHANGED <<LogWithBlocking, fileOpen, fileData, rotationVars, now, workerPc,
                   workerRec, calls, enq, dropped, suspended, closeSnap>>
    /\ UNCHANGED <<ctorVars, osVars, writeFailed>>

\* ---------------------------------------------------------- the worker
\* case rec, ok := <-w.rec: the receive, the !ok return, and the test for
\* the drain request.  A parked sender whose value enters the buffer wakes
\* and returns from its send.
WorkerRecv ==
    /\ workerPc = "recv"
    /\ rec.buf # <<>> \/ rec.closed
    /\ IF rec.buf # <<>>
       THEN LET r == Head(rec.buf)
                w == Woken(rec)
            IN  /\ rec' = ChanRecv(rec)
                /\ workerRec' = r
                /\ workerPc' = IF EndNotify(r) THEN "notify" ELSE "write"
                /\ pc' = [p \in Producers |-> IF p \in w THEN "idle" ELSE pc[p]]
                /\ calls' = [p \in Producers |->
                               IF p \in w THEN calls[p] + 1 ELSE calls[p]]
                /\ closerPc' = IF Closer \in w THEN "waitEnd" ELSE closerPc
                /\ enq' = IF w # {} /\ w \subseteq Producers
                          THEN Append(enq, Head(rec.sendq).val)
                          ELSE enq
       ELSE /\ workerPc' = "exit"
            /\ UNCHANGED <<rec, workerRec, pc, calls, closerPc, enq>>
    /\ UNCHANGED <<LogWithBlocking, fileOpen, fileData, rotationVars, now, dropped,
                   suspended, closeSnap>>
    /\ UNCHANGED <<ctorVars, osVars, writeFailed>>

WorkerWriteNoReturn ==
    /\ workerPc = "write"
    /\ \E ok \in BOOLEAN :
         /\ fileData' = IF ok THEN Append(fileData, Render(workerRec)) ELSE fileData
         /\ workerPc' = "recv"
         /\ writeFailed' = (writeFailed \/ ~ok)
    /\ UNCHANGED <<LogWithBlocking, rec, fileOpen, rotationVars, now, workerRec,
                   closerPc, pc, calls, enq, dropped, suspended, closeSnap>>
    /\ UNCHANGED <<ctorVars, osVars>>
\* Perform the write: w.file.Write(rec.Binary) or fmt.Fprint(w.file, ...);
\* on an error the worker returns.
WorkerWrite ==
    /\ workerPc = "write"
    /\ \E ok \in BOOLEAN :
         IF ok
         THEN /\ fileData' = Append(fileData, Render(workerRec))
              /\ workerPc' = "recv"
              /\ UNCHANGED writeFailed
         ELSE /\ workerPc' = "exit"
              /\ writeFailed' = TRUE
              /\ UNCHANGED fileData
    /\ UNCHANGED <<LogWithBlocking, rec, fileOpen, rotationVars, now, workerRec,
                   closerPc, pc, calls, enq, dropped, suspended, closeSnap>>
    /\ UNCHANGED <<ctorVars, osVars>>

WorkerEndNotifyNoReturn ==
    /\ workerPc = "notify"
    /\ closerPc = "waitEnd"
    /\ workerPc' = "recv"
    /\ closerPc' = "close"
    /\ UNCHANGED <<LogWithBlocking, sinkVars, now, workerRec, pc, calls, enq,
                   dropped, suspended, closeSnap>>
    /\ UNCHANGED <<ctorVars, osVars, writeFailed>>
\* if w.EndNotify(rec) { return }: the acknowledgement is handed to the
\* closer waiting in WaitForEnd, then the worker returns.
WorkerEndNotify ==
    /\ workerPc = "notify"
    /\ closerPc = "waitEnd"
    /\ workerPc' = "exit"
    /\ closerPc' = "close"
    /\ UNCHANGED <<LogWithBlocking, sinkVars, now, workerRec, pc, calls, enq,
                   dropped, suspended, closeSnap>>
    /\ UNCHANGED <<ctorVars, osVars, writeFailed>>

WorkerExitNoClose ==
    /\ workerPc = "exit"
    /\ workerPc' = "done"
    /\ UNCHANGED <<LogWithBlocking, rec, fileData, rotationVars, now, workerRec,
                   closerPc, pc, calls, enq, dropped, suspended, closeSnap>>
    /\ UNCHANGED <<ctorVars, osVars, fileOpen, writeFailed>>
\* defer: if w.file != nil { w.file.Close() }; the worker runs only with a
\* handle assigned.
WorkerExit ==
    /\ workerPc = "exit"
    /\ fileOpen' = FALSE
    /\ handles' = FileClose(handles, fileOpen)
    /\ closeCount' = closeCount + 1
    /\ workerPc' = "done"
    /\ UNCHANGED <<LogWithBlocking, rec, fileData, rotationVars, now, workerRec,
                   closerPc, pc, calls, enq, dropped, suspended, closeSnap>>
    /\ UNCHANGED <<ctorVars, dupCount, writeFailed>>

\* --------------------------------------------------------------- time
\* The wall clock moves on by one rotation interval.  No whole interval
\* passes between the worker's receive of a record and its write.
Tick ==
    /\ ctorPc = "ok"
    /\ (now - StartTime) \div interval < MaxTicks
    /\ workerPc # "write"
    /\ now' = now + interval
    /\ UNCHANGED <<LogWithBlocking, sinkVars, workerPc, workerRec, closerPc, pc,
                   calls, enq, dropped, suspended, closeSnap>>
    /\ UNCHANGED <<ctorVars, osVars, writeFailed>>

\* -------------------------------------------------------- construction
runVars == <<LogWithBlocking, now, workerRec, closerPc, pc, calls, enq, dropped,
             suspended, closeSnap, writeFailed, fileData>>
envVars == <<whenArg, stat, loggerMode, absOK, openOK>>

\* NewPanicFileLogWriter: when = strings.ToUpper(when), the struct with its
\* queue, and the call of run.
NewPanicFileLogWriter ==
    /\ ctorPc = "new"
    /\ when' = ToUpper(whenArg)
    /\ rec' = MakeChan
    /\ ctorPc' = "run"
    /\ UNCHANGED <<runVars, envVars, osVars, fileOpen, workerPc, interval, suffix,
                   fileFilter, rolloverAt, firstRollover>>

\* run: LogCloserInit, then filepath.Abs(fname); on an error run returns nil.
RunAbs ==
    /\ ctorPc = "run"
    /\ ctorPc' = IF absOK THEN "prepare" ELSE "failed"
    /\ UNCHANGED <<runVars, envVars, osVars, sinkVars, workerPc>>

\* prepare(): the reference time is the file's modification time when
\* os.Stat succeeds, the current time otherwise.
RefTime == IF stat.exists THEN stat.mtime ELSE now

\* prepare(): interval, suffix and filter from w.when, firstRollover and
\* rolloverAt from the reference time.
Prepare ==
    /\ ctorPc = "prepare"
    /\ interval' = Interval(when)
    /\ suffix' = Suffix(when)
    /\ fileFilter' = RegRule(when)
    /\ firstRollover' = TRUE
    /\ rolloverAt' = RolloverAt(RefTime, Interval(when))
    /\ ctorPc' = "rotate"
    /\ UNCHANGED <<runVars, envVars, osVars, rec, fileOpen, when, workerPc>>

\* w.file == nil: no handle was ever assigned (an assigned handle is open
\* until a counted Close).
FileIsNil == ~fileOpen /\ closeCount = 0

RedirectAlways == dupCount + 1
\* if os.Getenv("LOGGER_MODE") != "debug" { Dup2(fd, 1); Dup2(fd, 2) }
Redirect == IF loggerMode # "debug" THEN dupCount + 1 ELSE dupCount

IntRotateAssignsFirst ==
    /\ closeCount' = IF FileIsNil THEN closeCount ELSE closeCount + 1
    /\ handles' = FileOpen(FileClose(handles, fileOpen))
    /\ fileOpen' = TRUE
    /\ dupCount' = Redirect
\* intRotate(): close the handle held, open the file, keep the new handle
\* and redirect; on an open error nothing is kept and nothing redirected.
IntRotate ==
    /\ closeCount' = IF FileIsNil THEN closeCount ELSE closeCount + 1
    /\ IF openOK
       THEN /\ handles' = FileOpen(FileClose(handles, fileOpen))
            /\ fileOpen' = TRUE
            /\ dupCount' = Redirect
       ELSE /\ handles' = FileClose(handles, fileOpen)
            /\ fileOpen' = FALSE
            /\ UNCHANGED dupCount

\* run: if err := w.intRotate(); err != nil { ...; return nil }
RunIntRotate ==
    /\ ctorPc = "rotate"
    /\ IntRotate
    /\ ctorPc' = IF openOK THEN "start" ELSE "failed"
    /\ UNCHANGED <<runVars, envVars, rec, rotationVars, workerPc>>

\* run: go func() { ... }(), return w
RunStart ==
    /\ ctorPc = "start"
    /\ workerPc' = "recv"
    /\ ctorPc' = "ok"
    /\ UNCHANGED <<runVars, envVars, osVars, sinkVars>>

\* Before NewPanicFileLogWriter is called: no sink, no handle, no worker.
NoSink ==
    /\ rec = MakeChan
    /\ fileOpen = FALSE
    /\ fileData = <<>>
    /\ when = ""
    /\ interval = 0
    /\ suffix = ""
    /\ fileFilter = ""
    /\ rolloverAt = 0
    /\ firstRollover = FALSE
    /\ now = StartTime
    /\ workerPc = "none"
    /\ workerRec = Nil
    /\ closerPc = "idle"
    /\ pc = [p \in Producers |-> "idle"]
    /\ calls = [p \in Producers |-> 0]
    /\ enq = <<>>
    /\ dropped = {}
    /\ suspended = {}
    /\ closeSnap = [enq |-> 0, written |-> 0]
    /\ ctorPc = "new"
    /\ handles = 0
    /\ closeCount = 0
    /\ dupCount = 0
    /\ writeFailed = FALSE

\* A call of NewPanicFileLogWriter with any of the arguments, file states
\* and environments tried.
InitNew ==
    /\ NoSink
    /\ LogWithBlocking = FALSE
    /\ whenArg \in WhenArgs
    /\ stat \in StatInputs
    /\ loggerMode \in {"debug", ""}
    /\ absOK \in BOOLEAN
    /\ openOK \in BOOLEAN

NextNew ==
    \/ NewPanicFileLogWriter
    \/ RunAbs
    \/ Prepare
    \/ RunIntRotate
    \/ RunStart

\* The construction alone.
NewSpec == InitNew /\ [][NextNew]_vars

\* One sink from the call of NewPanicFileLogWriter to the end of its use.
InitLife ==
    /\ NoSink
    /\ LogWithBlocking \in BOOLEAN
    /\ whenArg = <<"m">>
    /\ stat = NoFile
    /\ loggerMode \in {"debug", ""}
    /\ absOK \in BOOLEAN
    /\ openOK \in BOOLEAN

\* ---------------------------------------------------------------- Spec
Next ==
    \/ LogWrite
    \/ CloseBegin
    \/ CloseChan
    \/ WorkerRecv
    \/ WorkerWrite
    \/ WorkerEndNotify
    \/ WorkerExit
    \/ Tick

Spec == Init /\ [][Next]_vars

NextLife == NextNew \/ Next
LifeSpec == InitLife /\ [][NextLife]_vars

\* Go schedules every runnable goroutine: a goroutine that can take its next
\* step eventually takes it.  Nobody is obliged to start a LogWrite call or
\* to call Close, and the clock is not a goroutine.
FairSpec ==
    /\ Spec
    /\ \A p \in Producers : WF_vars(LogWriteSend(p))
    /\ WF_vars(CloseChan)
    /\ WF_vars(WorkerRecv)
    /\ WF_vars(WorkerWrite)
    /\ WF_vars(WorkerEndNotify)
    /\ WF_vars(WorkerExit)

TypeOK ==
    /\ LogWithBlocking \in BOOLEAN
    /\ Len(rec.buf) <= LogBufferLength
    /\ rec.sendq # <<>> => Len(rec.buf) = LogBufferLength
    /\ workerPc \in {"none", "recv", "write", "notify", "exit", "done"}
    /\ closerPc \in {"idle", "parked", "waitEnd", "close", "returned"}
    /\ \A p \in Producers : pc[p] \in {"idle", "send", "parked", "panicked"}
    /\ \A p \in Producers : calls[p] \in 0..MaxCalls


\* -------------------------------------------------------------- claims
IsPrefix(s, t) == Len(s) <= Len(t) /\ \A i \in 1..Len(s) : s[i] = t[i]

\* C1: when Close() has returned, every record that had entered the queue
\* before Close() was called is in the file, in the order it was enqueued.
C1_CloseDrains ==
    closerPc = "returned" =>
        /\ Len(fileData) >= closeSnap.enq
        /\ \A i \in 1..closeSnap.enq : fileData[i] = Render(enq[i])

\* Close() has returned, and records were waiting in the queue, enqueued
\* but not yet written, when it was called.
C1_Witness ==
    /\ closerPc = "returned"
    /\ closeSnap.enq >= closeSnap.written + 2

C3_CloseReturns == (closerPc # "idle") ~> (closerPc = "returned")

\* C4: whenever Close() has returned, the file handle is closed.
C4_ClosedOnReturn == closerPc = "returned" => ~fileOpen

\* C5: once Close() has returned, the file content never changes.
C5_NoAppendAfterClose == [][closerPc = "returned" => fileData' = fileData]_vars

\* Close() has returned while a record is still sitting in the queue and a
\* LogWrite attempted afterwards has failed on the closed queue.
C5_Witness ==
    /\ closerPc = "returned"
    /\ rec.buf # <<>>
    /\ \E p \in Producers : pc[p] = "panicked"

\* C6: in non-blocking mode no LogWrite call is ever suspended, whatever
\* the interleaving of the producers (stated for a sink on which Close()
\* has not been called, so that only LogWrite calls compete for the queue).
C6_NeverSuspends ==
    (~LogWithBlocking /\ closerPc = "idle") =>
        \A p \in Producers : pc[p] # "parked"

\* C7: in blocking mode no record is discarded, and every LogWrite call that
\* has returned has placed its record in the queue.
C7_BlockingNeverDrops ==
    LogWithBlocking =>
        /\ dropped = {}
        /\ \A p \in Producers : \A k \in 1..calls[p] :
             RecordOf(p, k) \in Range(enq)

\* Blocking mode: a LogWrite call found the queue full, was suspended, and
\* has since returned with its record enqueued.
C7_Witness ==
    /\ LogWithBlocking
    /\ \E p \in Producers : \E k \in 1..calls[p] :
         RecordOf(p, k) \in suspended /\ RecordOf(p, k) \in Range(enq)

\* C8: in blocking mode, under fair scheduling, a LogWrite call made before
\* Close() is called eventually returns (stated for calls during which
\* Close() is not called: the call returns, unless Close() is called first).
C8_BlockingCallReturns ==
    \A p \in Producers :
        (LogWithBlocking /\ pc[p] \in {"send", "parked"} /\ closerPc = "idle")
            ~> (pc[p] = "idle" \/ closerPc # "idle")

\* C9: in non-blocking mode a LogWrite call that finds LogBufferLength
\* records in the queue returns normally, enqueues nothing, and leaves the
\* queue, the file and every other field of the sink unchanged.
C9_DropLeavesSinkUnchanged ==
    [][\A p \in Producers :
         (/\ ~LogWithBlocking
          /\ pc[p] = "idle"
          /\ Len(rec.buf) >= LogBufferLength
          /\ (pc'[p] # pc[p] \/ calls'[p] # calls[p]))
         => (/\ pc'[p] = "idle"
             /\ calls'[p] = calls[p] + 1
             /\ RecordOf(p, calls[p] + 1) \notin Range(enq')
             /\ enq' = enq
             /\ UNCHANGED sinkVars)]_vars

\* Non-blocking mode: a call has been dropped on a full queue.
C9_Witness ==
    /\ ~LogWithBlocking
    /\ dropped # {}
    /\ Len(rec.buf) = LogBufferLength
    /\ \A r \in dropped : r \notin Range(enq)

\* C10: whenever the worker has just processed (written) a record,
\* rolloverAt is strictly greater than the current time.
C10_RolloverInFuture ==
    [][(workerPc = "write" /\ Len(fileData') > Len(fileData))
         => rolloverAt' > now']_vars


\* Prepare() has run.
Prepared == ctorPc \in {"rotate", "start", "ok"}

\* C11: the rolloverAt prepare() computes is the smallest multiple of the
\* interval that is strictly greater than the reference time.
C11_SmallestMultipleAbove ==
    Prepared =>
        /\ interval \in {60, 60 * 60, 60 * 60 * 24}
        /\ rolloverAt % interval = 0
        /\ rolloverAt > RefTime
        /\ rolloverAt - interval <= RefTime

\* strings.ToLower of the argument, for the case-insensitive comparison
LowerChar(c) ==
    IF \E i \in 1..Len(UpperLetters) : UpperLetters[i] = c
    THEN LowerLetters[CHOOSE i \in 1..Len(UpperLetters) : UpperLetters[i] = c]
    ELSE c
Fold(cs) == Join([i \in 1..Len(cs) |-> LowerChar(cs[i])])

\* C12: compared case-insensitively, "M" gives interval 60 with the
\* year-month-day_hour-minute suffix and filter, "H" gives 3600 with the
\* 10-digit suffix and filter, every other unit string gives 86400 with the
\* year-month-day suffix and filter; nothing but the unit string decides.
C12_PolicyTable ==
    Prepared =>
        <<interval, suffix, fileFilter>> =
            IF Fold(whenArg) = "m"
            THEN <<60, "%Y-%m-%d_%H-%M", "^\\d{4}-\\d{2}-\\d{2}_\\d{2}-\\d{2}$">>
            ELSE IF Fold(whenArg) = "h"
            THEN <<60 * 60, "%Y%m%d%H", "^\\d{10}$">>
            ELSE <<60 * 60 * 24, "%Y-%m-%d", "^\\d{4}-\\d{2}-\\d{2}$">>

\* A sink was constructed with the lower-case unit "h" and has the hourly
\* policy.
C12_Witness ==
    /\ ctorPc = "ok"
    /\ whenArg = <<"h">>
    /\ interval = 60 * 60
    /\ suffix = "%Y%m%d%H"

\* C13: once a write has failed the worker handles no further record: the
\* file content and the record it holds never change again, it only runs
\* its teardown, after which the handle is closed, and it is not restarted.
C13_WriteErrorStopsWorker ==
    [][/\ writeFailed' => /\ workerPc' \in {"exit", "done"}
                          /\ (workerPc' = "done" => ~fileOpen')
       /\ writeFailed => /\ fileData' = fileData
                         /\ workerRec' = workerRec
                         /\ Len(rec'.buf) >= Len(rec.buf)]_vars

\* A write failed, the worker has gone and closed the file, and a record
\* submitted behind the failed one is still in the queue, unwritten.
C13_Witness ==
    /\ writeFailed
    /\ workerPc = "done"
    /\ ~fileOpen
    /\ rec.buf # <<>>
    /\ \A i \in 1..Len(rec.buf) : Render(rec.buf[i]) \notin Range(fileData)

\* What a failed construction leaves: nil returned, no worker, no handle,
\* no redirection.
NothingHeld ==
    /\ ctorPc = "failed"
    /\ workerPc = "none"
    /\ ~fileOpen
    /\ handles = 0
    /\ dupCount = 0

\* C14: when the path cannot be made absolute or the first open fails,
\* NewPanicFileLogWriter returns nil, starts no worker, holds no open handle
\* and redirects nothing.
C14_FailedConstruction ==
    /\ (~absOK /\ ctorPc \notin {"new", "run"}) => NothingHeld
    /\ (absOK /\ ~openOK /\ ctorPc \notin {"new", "run", "prepare", "rotate"})
           => NothingHeld

\* The first open failed in an environment that asks for redirection.
C14_Witness ==
    /\ ctorPc = "failed"
    /\ absOK
    /\ ~openOK
    /\ loggerMode # "debug"

\* C15: over the life of a sink the redirection is performed exactly once
\* when LOGGER_MODE is not "debug" and never when it is; no write performs
\* or repeats it.
C15_RedirectOnce ==
    /\ dupCount <= 1
    /\ ctorPc = "ok" => dupCount = (IF loggerMode = "debug" THEN 0 ELSE 1)

\* A sink outside debug mode has written two records and was redirected
\* once.
C15_Witness ==
    /\ ctorPc = "ok"
    /\ loggerMode # "debug"
    /\ Len(fileData) >= 2
    /\ dupCount = 1

C17_AtMostOneHandle ==
    /\ handles \in {0, 1}
    /\ fileOpen <=> handles = 1

\* The sink holds its one handle while records are being written.
C17_Witness ==
    /\ ctorPc = "ok"
    /\ handles = 1
    /\ Len(fileData) >= 1

\* C18: when the worker has exited, the handle has been closed exactly
\* once; it is never closed twice.
C18_ClosedExactlyOnce ==
    /\ closeCount <= 1
    /\ workerPc = "done" => (closeCount = 1 /\ handles = 0 /\ ~fileOpen)
    /\ workerPc \in {"recv", "write", "notify", "exit"} => closeCount = 0

\* The worker has exited on the shutdown marker and Close() has returned.
C18_Witness ==
    /\ workerPc = "done"
    /\ closerPc = "returned"
    /\ closeCount = 1

fileVars == <<fileOpen, fileData, handles, closeCount, dupCount>>

\* C19: a step of LogWrite or Close leaves the file handle and the rotation
\* state as they are, and every change of the file is a step of the worker.
C19_CallersLeaveFileAlone ==
    [][/\ (pc' # pc \/ calls' # calls \/ closerPc' # closerPc)
            => UNCHANGED <<fileVars, rotationVars>>
       /\ (fileVars' # fileVars)
            => (workerPc' # workerPc /\ pc' = pc /\ calls' = calls
                /\ closerPc' = closerPc /\ UNCHANGED rotationVars)]_vars

\* LogWrite calls and Close() have run to their end, records were written,
\* and the rotation state is what prepare() left.
C19_Witness ==
    /\ closerPc = "returned"
    /\ \E p \in Producers : calls[p] >= 1
    /\ Len(fileData) >= 1
    /\ rolloverAt = RolloverAt(StartTime, interval)

\* C20: a send of LogWrite that executes on the closed queue panics and
\* enqueues nothing, and so does a producer parked on the queue when Close()
\* closes it; a call that has panicked never returns.
C20_SendOnClosedPanics ==
    [][\A p \in Producers :
         /\ (pc[p] = "send" /\ rec.closed /\ pc'[p] # pc[p])
               => (pc'[p] = "panicked" /\ calls'[p] = calls[p]
                   /\ enq' = enq /\ rec' = rec)
         /\ (pc[p] = "parked" /\ ~rec.closed /\ rec'.closed)
               => (pc'[p] = "panicked" /\ calls'[p] = calls[p]
                   /\ enq' = enq /\ rec'.buf = rec.buf)
         /\ pc[p] = "panicked" => pc'[p] = "panicked"]_vars

\* One producer was parked on the full queue when Close() closed it, another
\* reached its send afterwards; both have panicked.
C20_Witness ==
    \E p, q \in Producers :
        /\ p # q
        /\ pc[p] = "panicked"
        /\ pc[q] = "panicked"
        /\ RecordOf(p, calls[p] + 1) \in suspended
        /\ RecordOf(q, calls[q] + 1) \notin suspended

====
